---- MODULE Spec2Model ----
(***************************************************************************)
(* Server-Sent Events: the server-side stream encoder SSE (src/index.js)   *)
(* and the client-side transport ServerSentEvents (src/unnamed/part_000).  *)
(*                                                                         *)
(* src/index.js holds two texts of the encoder module: lines 1-169, which  *)
(* negotiate compression through zipline/zlib, and lines 171-306, which do *)
(* not.  The variable impl says which text built the encoder ("zip" or     *)
(* "plain"); every statement about the encoder is checked for both.        *)
(*                                                                         *)
(* JavaScript strings that the code only concatenates are TLA+ strings.    *)
(* Strings that the code inspects (a User-Agent matched by a regular       *)
(* expression, a header converted to a number, a URL searched for '?')     *)
(* are sequences of tokens, one token per character, except that the       *)
(* literal words the code looks for ("Opera") are one token.               *)
(***************************************************************************)
EXTENDS Integers, Sequences, FiniteSets, TLC

MaxCalls == 3
MaxItems == 2
MaxConns == 3
MaxInstances == 2
MaxEvents == 2

VARIABLES
  \* ---- the encoder object and its collaborators (src/index.js)
  pc,           \* "idle": not constructed, "ready": constructed, "thrown": new SSE() threw
  impl,         \* which text of src/index.js built the encoder
  req,          \* the incoming request given to new SSE(req, res, options)
  resHeaders,   \* the `headers` property of the response object (read at line 62)
  manual,       \* options.manual
  id,           \* this.id
  lastEventId,  \* this.lastEventId
  encoding,     \* this.encoding
  res,          \* this.res: "http" (the response), "zlib" (a zlib stream) or "null"
  numbering,    \* this.numbering
  legacy,       \* this.legacy (its truthiness)
  storage,      \* whether this.storage is attached
  store,        \* the storage.set(key, payload) calls made, in order
  httpStatus,   \* statusCode of the HTTP response (0: never assigned)
  httpHeaders,  \* headers set on the HTTP response with setHeader
  zlibStatus,   \* statusCode property assigned on the zlib stream (0: never assigned)
  accepted,     \* "no": accept never called, "done": it returned, "threw": it raised
  writes,       \* number of write() calls made
  ids,          \* the ids given to format('id', .) by write(), in order
  last,         \* the last write()/retry() call: what it got, did and returned
  \* ---- the transport object and its environment (src/unnamed/part_000)
  platform,     \* "unloaded", or where the module was loaded: "browser", "node", "opera"
  instance,     \* number of transports constructed; the fields below are the newest one's
  api,          \* this.api: a connection handle (index in conns), 0 for null
  url,          \* this.url
  div,          \* this.div: the container of a legacy handle (index in conns), 0 for null
  listen,       \* whether this.listen holds the four listeners (FALSE: null)
  noreconnect,  \* this.noreconnect
  unique,       \* the module's counter of legacy markers
  conns,        \* every connection handle created, in order of creation
  lastOp,       \* the last transport method called from outside
  lastCalls,    \* the calls that method made on connection handles, in order
  lastThrew,    \* whether that method raised a TypeError
  options,      \* what the constructor was given: options.manual, a data callback
  opened,       \* whether open() has been called on the transport
  subs,         \* the transport's 'data' subscribers, in order of subscription
  emitted,      \* the transport's 'data' emissions, in order
  fired,        \* number of events the handles have delivered
  lastEvent     \* the last event a handle delivered

sseVars == <<pc, impl, req, resHeaders, manual, id, lastEventId, encoding, res,
             numbering, legacy, storage, store, httpStatus, httpHeaders,
             zlibStatus, accepted, writes, ids, last>>

eventVars == <<options, opened, subs, emitted, fired, lastEvent>>

clientVars == <<platform, instance, api, url, div, listen, noreconnect, unique,
                conns, lastOp, lastCalls, lastThrew, eventVars>>

vars == <<sseVars, clientVars>>

-----------------------------------------------------------------------------
(* Values *)

Null == [kind |-> "null", n |-> 0]
NaN  == [kind |-> "nan", n |-> 0]
Num(k) == [kind |-> "num", n |-> k]

\* A request or response header: absent, or present with a token sequence.
Absent == [present |-> FALSE, value |-> <<>>]
Header(s) == [present |-> TRUE, value |-> s]

\* JavaScript truthiness of a header value: undefined and '' are falsy.
Truthy(h) == h.present /\ h.value # <<>>

UserAgents ==
  { <<"Opera", "/", "9", ".", "8">>,
    <<"Opera", " ", "M", "/", "9">>,
    <<"Opera", "/", "1", "0">>,
    <<"Opera", "/", "8", "/", "9">>,
    <<"M", "/", "5", " ", "Opera", "/", "9">> }

Digits == <<"0", "1", "2", "3", "4", "5", "6", "7", "8", "9">>

IsDigit(c) == \E d \in 1..10 : Digits[d] = c

DigitVal(c) == (CHOOSE d \in 1..10 : Digits[d] = c) - 1

RECURSIVE Decimal(_)
Decimal(s) ==
  IF s = <<>> THEN 0
  ELSE 10 * Decimal(SubSeq(s, 1, Len(s) - 1)) + DigitVal(s[Len(s)])

\* Unary plus on a string: '' is 0, a digit string its value, anything else NaN.
ToNumber(s) ==
  IF \A i \in 1..Len(s) : IsDigit(s[i]) THEN Num(Decimal(s)) ELSE NaN

LastEventIds == { <<"4", "2">>, <<"0">>, <<"4", "x">>, <<>> }

\* Payload values: any may be written alone, arrays are built from ArrayValues.
Values == {"a", "b", "c"}
ArrayValues == {"a", "b"}

RECURSIVE SeqsUpTo(_, _)
SeqsUpTo(S, n) ==
  IF n = 0 THEN { <<>> }
  ELSE LET shorter == SeqsUpTo(S, n - 1)
       IN  shorter \cup { Append(s, v) : s \in shorter, v \in S }

\* What a caller may pass to write(): one value, or an array of values.
Scalar(v) == [array |-> FALSE, value |-> v, items |-> <<>>]
Array(s) == [array |-> TRUE, value |-> "", items |-> s]
Messages == { Scalar(v) : v \in Values } \cup { Array(s) : s \in SeqsUpTo(ArrayValues, MaxItems) }

Intervals == {1000, 3000}

QueryKeys == { {}, {"_SSE_LEGACY"} }

\* What zipline(req) may answer: no encoding, or the name of one.
ZipResults == {"none", "gzip", "deflate", "raw", "br"}

\* The requests, response objects and zipline answers of the streaming runs:
\* one of each kind that write() and retry() can tell apart.
StreamRequests ==
  [ query : QueryKeys,
    userAgent : {Absent},
    lastEventId : {Absent, Header(<<"4", "2">>)} ]

StreamZipResults == {"none", "gzip"}

\* The requests and messages of the runs with a Sequence Store: a standard
\* and a legacy client; a single value, an array and an empty array.
StoreRequests ==
  [ query : QueryKeys, userAgent : {Absent}, lastEventId : {Absent} ]

StoreMessages == { Scalar("c"), Array(<<"a", "b">>), Array(<<>>) }

Requests ==
  [ query : QueryKeys,
    userAgent : {Absent} \cup { Header(u) : u \in UserAgents },
    lastEventId : {Absent} \cup { Header(s) : s \in LastEventIds } ]

\* The response object's `headers` property: undefined on a real response.
ResponseHeaders ==
  { [defined |-> FALSE, userAgent |-> Absent] }
    \cup { [defined |-> TRUE, userAgent |-> h] : h \in {Absent} \cup { Header(u) : u \in UserAgents } }

StreamResponseHeaders == { h \in ResponseHeaders : h.userAgent = Absent }

HeaderNames ==
  {"Transfer-Encoding", "Cache-Control", "Connection", "Content-Type",
   "Content-Encoding", "Vary"}

NoHeaders == [h \in HeaderNames |-> ""]

\* last: op, the argument (msg or interval), this.id and this.res when called,
\* the calls made on the sink (each with the sink's answer), the value returned.
NoCall == [op |-> "none", msg |-> Array(<<>>), interval |-> 0, seq |-> 0,
           sink |-> "null", sunk |-> <<>>, ret |-> FALSE]

-----------------------------------------------------------------------------
(* Pure functions of the encoder *)

\* /^Opera[^\/]*\/9/.test(ua)
OperaNine(ua) ==
  /\ Len(ua) >= 1
  /\ ua[1] = "Opera"
  /\ \E i \in 2..(Len(ua) - 1) :
       /\ ua[i] = "/"
       /\ ua[i + 1] = "9"
       /\ \A j \in 2..(i - 1) : ua[j] # "/"

\* legacy(query, headers) raises a TypeError when headers is undefined and read.
LegacyThrows(query, headers) ==
  /\ "_SSE_LEGACY" \notin query
  /\ ~headers.defined

LegacyResult(query, headers) ==
  \/ "_SSE_LEGACY" \in query
  \/ /\ headers.defined
     /\ Truthy(headers.userAgent)
     /\ OperaNine(headers.userAgent.value)

\* compress(encoding, res): the stream this.res becomes.
Compress(zipable) ==
  CASE zipable = "deflate" -> "zlib"
    [] zipable = "raw" -> "zlib"
    [] zipable = "gzip" -> "zlib"
    [] OTHER -> "http"

\* format with the legacy space written in both dialects
FormatSpaced(isLegacy, key, value) ==
  key \o ":" \o " " \o value \o "\n"

\* SSE.prototype.format
Format(isLegacy, key, value) ==
  key \o ":" \o (IF isLegacy THEN " " ELSE "") \o value \o "\n"

\* if (!Array.isArray(msg)) msg = [msg];
ToArray(msg) == IF msg.array THEN msg.items ELSE <<msg.value>>

\* The for loop of write(): payload += this.format('data', msg[i])
RECURSIVE DataFrames(_, _)
DataFrames(isLegacy, arr) ==
  IF arr = <<>> THEN ""
  ELSE Format(isLegacy, "data", Head(arr)) \o DataFrames(isLegacy, Tail(arr))

\* write() testing this.numbering before this.legacy
WritePayloadNumberingFirst(isLegacy, isNumbering, seq, arr) ==
  IF isNumbering
  THEN Format(isLegacy, "id", ToString(seq)) \o DataFrames(isLegacy, arr)
  ELSE IF isLegacy THEN Format(isLegacy, "Event", "sse")
       ELSE DataFrames(isLegacy, arr)

\* write() without its test of this.numbering
WritePayloadAlwaysId(isLegacy, isNumbering, seq, arr) ==
  IF isLegacy THEN Format(isLegacy, "Event", "sse")
  ELSE Format(isLegacy, "id", ToString(seq)) \o DataFrames(isLegacy, arr)

\* The payload write() hands to _write.
WritePayload(isLegacy, isNumbering, seq, arr) ==
  IF isLegacy THEN Format(isLegacy, "Event", "sse")
  ELSE IF isNumbering
       THEN Format(isLegacy, "id", ToString(seq)) \o DataFrames(isLegacy, arr)
       ELSE DataFrames(isLegacy, arr)

\* Whether write() takes the numbering branch, and the id after the call.
Numbered(isLegacy, isNumbering) == ~isLegacy /\ isNumbering

\* write() without its this.id++
NextIdStuck(isLegacy, isNumbering, seq) == seq

\* write() incrementing this.id only when the flush is about to be skipped twice
NextIdTwice(isLegacy, isNumbering, seq) ==
  IF ~isLegacy /\ isNumbering THEN seq + 2 ELSE seq

NextId(isLegacy, isNumbering, seq) ==
  IF Numbered(isLegacy, isNumbering) THEN seq + 1 ELSE seq

\* storage.set called after this.id++ instead of before it
StoredAfterIncrement(calls, attached, seq, payload) ==
  IF attached THEN Append(calls, [key |-> seq + 1, payload |-> payload]) ELSE calls

\* if (this.storage) this.storage.set(this.id, payload);
Stored(calls, attached, seq, payload) ==
  IF attached THEN Append(calls, [key |-> seq, payload |-> payload]) ELSE calls

\* _write(packet): the sink calls made (none without a sink) and the result.
Sunk(sink, packet, ok) ==
  IF sink = "null" THEN <<>>
  ELSE << [to |-> sink, packet |-> packet \o "\n", answer |-> ok] >>

\* _write without its guard's `return false`
WriteResultUnguarded(sink, ok) == ok

WriteResult(sink, ok) == IF sink = "null" THEN FALSE ELSE ok

\* accept(): what it leaves behind, given the stream this.res is.
\* A zlib stream takes the statusCode property and has no setHeader method;
\* a null this.res cannot even take the property.
AcceptThrows(sink) == sink # "http"

AcceptContentType(isLegacy) ==
  IF isLegacy THEN "text/x-dom-event-stream" ELSE "text/event-stream"

AcceptHeaders(old, isLegacy, enc) ==
  [h \in HeaderNames |->
     CASE h = "Transfer-Encoding" -> "chunked"
       [] h = "Cache-Control" -> "no-cache"
       [] h = "Connection" -> "keep-alive"
       [] h = "Content-Type" -> AcceptContentType(isLegacy)
       [] h = "Content-Encoding" -> IF enc # "null" THEN enc ELSE old[h]
       [] h = "Vary" -> IF enc # "null" THEN "Content-Encoding" ELSE old[h]]

AcceptLastEventId(old, request) ==
  IF ~Truthy(request.lastEventId) THEN old
  ELSE ToNumber(request.lastEventId.value)

\* The value the constructor gives this.lastEventId.
InitialLastEventId(text) == IF text = "zip" THEN Null ELSE Num(0)

-----------------------------------------------------------------------------
(* State machine of the encoder *)

InitSSE ==
  /\ pc = "idle"
  /\ impl = "plain"
  /\ req = [query |-> {}, userAgent |-> Absent, lastEventId |-> Absent]
  /\ resHeaders = [defined |-> FALSE, userAgent |-> Absent]
  /\ manual = FALSE
  /\ id = 0
  /\ lastEventId = Null
  /\ encoding = "null"
  /\ res = "null"
  /\ numbering = FALSE
  /\ legacy = FALSE
  /\ storage = FALSE
  /\ store = <<>>
  /\ httpStatus = 0
  /\ httpHeaders = NoHeaders
  /\ zlibStatus = 0
  /\ accepted = "no"
  /\ writes = 0
  /\ ids = <<>>
  /\ last = NoCall

\* new SSE(req, res, options)
Construct(text, request, headers, zipable, optNumbering, optManual) ==
  LET sink == IF text = "zip" THEN Compress(zipable) ELSE "http"
      enc == IF text = "zip" /\ sink # "http" THEN zipable ELSE "null"
      threwEarly == LegacyThrows(request.query, headers)
      isLegacy == LegacyResult(request.query, headers)
      runsAccept == ~threwEarly /\ ~optManual
      threwLate == runsAccept /\ AcceptThrows(sink)
  IN
  /\ impl' = text
  /\ req' = request
  /\ resHeaders' = headers
  /\ manual' = optManual
  /\ pc' = IF threwEarly \/ threwLate THEN "thrown" ELSE "ready"
  /\ id' = 0
  /\ encoding' = IF threwEarly THEN "null" ELSE enc
  /\ res' = IF threwEarly THEN "null" ELSE sink
  /\ numbering' = IF threwEarly THEN FALSE ELSE optNumbering
  /\ legacy' = IF threwEarly THEN FALSE ELSE isLegacy
  /\ lastEventId' =
       IF runsAccept /\ ~threwLate
       THEN AcceptLastEventId(InitialLastEventId(text), request)
       ELSE InitialLastEventId(text)
  /\ httpStatus' = IF runsAccept /\ sink = "http" THEN 200 ELSE httpStatus
  /\ httpHeaders' =
       IF runsAccept /\ sink = "http"
       THEN AcceptHeaders(httpHeaders, isLegacy, enc)
       ELSE httpHeaders
  /\ zlibStatus' = IF runsAccept /\ sink = "zlib" THEN 200 ELSE zlibStatus
  /\ accepted' = IF ~runsAccept THEN "no" ELSE IF threwLate THEN "threw" ELSE "done"
  /\ UNCHANGED <<storage, store, writes, ids, last, clientVars>>

New(requests, responseHeaders, zipResults) ==
  /\ pc = "idle"
  /\ \E text \in {"zip", "plain"}, request \in requests, headers \in responseHeaders,
        zipable \in zipResults, optNumbering \in BOOLEAN, optManual \in BOOLEAN :
       /\ text = "plain" => zipable = "none"
       /\ Construct(text, request, headers, zipable, optNumbering, optManual)

\* sse.accept(req), called by the owner of an encoder built with manual set
Accept ==
  /\ pc = "ready"
  /\ accepted' = IF AcceptThrows(res) THEN "threw" ELSE "done"
  /\ httpStatus' = IF res = "http" THEN 200 ELSE httpStatus
  /\ httpHeaders' =
       IF res = "http" THEN AcceptHeaders(httpHeaders, legacy, encoding)
       ELSE httpHeaders
  /\ zlibStatus' = IF res = "zlib" THEN 200 ELSE zlibStatus
  /\ lastEventId' =
       IF AcceptThrows(res) THEN lastEventId
       ELSE AcceptLastEventId(lastEventId, req)
  /\ UNCHANGED <<pc, impl, req, resHeaders, manual, id, encoding, res, numbering,
                 legacy, storage, store, writes, ids, last, clientVars>>

\* sse.write(msg); ok is what the sink's write() answers
Write(msg, ok) ==
  LET arr == ToArray(msg)
      payload == WritePayload(legacy, numbering, id, arr)
  IN
  /\ pc = "ready"
  /\ writes < MaxCalls
  /\ writes' = writes + 1
  /\ store' =
       IF Numbered(legacy, numbering)
       THEN Stored(store, storage, id, DataFrames(legacy, arr))
       ELSE store
  /\ ids' = IF Numbered(legacy, numbering) THEN Append(ids, id) ELSE ids
  /\ id' = NextId(legacy, numbering, id)
  /\ last' = [op |-> "write", msg |-> msg, interval |-> 0, seq |-> id,
              sink |-> res, sunk |-> Sunk(res, payload, ok), ret |-> WriteResult(res, ok)]
  /\ UNCHANGED <<pc, impl, req, resHeaders, manual, lastEventId, encoding, res,
                 numbering, legacy, storage, httpStatus, httpHeaders, zlibStatus,
                 accepted, clientVars>>

WriteFrom(messages) == \E msg \in messages, ok \in BOOLEAN : Write(msg, ok)

WriteAny == WriteFrom(Messages)

\* sse.retry(interval)
Retry(interval, ok) ==
  /\ pc = "ready"
  /\ last' = [op |-> "retry", msg |-> Array(<<>>), interval |-> interval, seq |-> id,
              sink |-> res,
              sunk |-> Sunk(res, Format(legacy, "retry", ToString(interval)), ok),
              ret |-> WriteResult(res, ok)]
  /\ UNCHANGED <<pc, impl, req, resHeaders, manual, id, lastEventId, encoding, res,
                 numbering, legacy, storage, store, httpStatus, httpHeaders,
                 zlibStatus, accepted, writes, ids, clientVars>>

RetryAny == \E interval \in Intervals, ok \in BOOLEAN : Retry(interval, ok)

\* The owner drops the sink: sse.res = null (the case _write guards against)
Detach ==
  /\ pc = "ready"
  /\ res # "null"
  /\ res' = "null"
  /\ UNCHANGED <<pc, impl, req, resHeaders, manual, id, lastEventId, encoding,
                 numbering, legacy, storage, store, httpStatus, httpHeaders,
                 zlibStatus, accepted, writes, ids, last, clientVars>>

\* The owner attaches a Sequence Store: sse.storage = store
AttachStorage ==
  /\ pc = "ready"
  /\ ~storage
  /\ storage' = TRUE
  /\ UNCHANGED <<pc, impl, req, resHeaders, manual, id, lastEventId, encoding, res,
                 numbering, legacy, store, httpStatus, httpHeaders, zlibStatus,
                 accepted, writes, ids, last, clientVars>>

-----------------------------------------------------------------------------
(* The transport: values and the steps of its methods *)

\* A URL: null, or a string as a sequence of tokens ('?' is a token).
NullUrl == [null |-> TRUE, s |-> <<>>]
Url(s) == [null |-> FALSE, s |-> s]

\* JavaScript truthiness of a URL argument: undefined, null and '' are falsy.
Falsy(u) == u.null \/ u.s = <<>>

Urls == { Url(<<"/sse">>), Url(<<"/sse", "?", "t=1">>) }

Platforms == {"browser", "node", "opera"}

\* ServerSentEvents.legacy: whether addEventStream is a function.
LegacyFlag == platform = "opera"

\* Whether a connection handle has a removeListener method: no browser
\* EventSource or element has one, an EventEmitter-based EventSource does.
HasRemoveListener == platform = "node"

Call(name, h, arg) == [call |-> name, h |-> h, arg |-> arg]

Quiet(cs) == [conns |-> cs, calls |-> <<>>, threw |-> FALSE]

\* The transport object's fields, as the methods read and assign them.
Self == [api |-> api, url |-> url, div |-> div, listen |-> listen]

Fresh == [api |-> 0, url |-> NullUrl, div |-> 0, listen |-> TRUE]

\* The bindings end() asks the handle to remove.
EndRemoves ==
  << <<"message", "data">>, <<"error", "error">>, <<"open", "open">>, <<"sse", "data">> >>

\* The bindings open() adds after either strategy.
OpenAdds ==
  << <<"error", "error">>, <<"close", "close">>, <<"open", "open">> >>

Range(f) == { f[i] : i \in DOMAIN f }

Calls(name, h, bindings) ==
  [i \in DOMAIN bindings |-> Call(name, h, bindings[i])]

\* ServerSentEvents.prototype.end, run on the fields self and the handles cs.
EndRun(self, cs) ==
  IF self.api = 0 THEN Quiet(cs)
  ELSE
    LET a == self.api
        closing ==
          IF cs[a].kind = "es" THEN << Call("close", a, <<>>) >>
          ELSE << Call("removeEventSource", a, <<>>), Call("removeAttribute", a, <<>>) >>
        closed == [cs EXCEPT ![a].live = FALSE]
    IN
    IF ~self.listen \/ ~HasRemoveListener
    THEN [conns |-> closed, calls |-> closing, threw |-> TRUE]
    ELSE [conns |-> [closed EXCEPT ![a].listeners = @ \ Range(EndRemoves)],
          calls |-> closing \o Calls("removeListener", a, EndRemoves),
          threw |-> FALSE]

\* ServerSentEvents.prototype.initialize
InitializeRun(self, cs, uniq, owner, target) ==
  LET h == Len(cs) + 1
      conn == [owner |-> owner, kind |-> "es", url |-> self.url, asked |-> target,
               elementId |-> "", attempts |-> 1, lost |-> FALSE,
               live |-> TRUE, mounted |-> FALSE, listeners |-> {}]
      created == << Call("new", h, <<>>) >>
  IN
  IF ~self.listen
  THEN [self |-> [self EXCEPT !.api = h], conns |-> Append(cs, conn),
        unique |-> uniq, calls |-> created, threw |-> TRUE]
  ELSE [self |-> [self EXCEPT !.api = h, !.url = target],
        conns |-> Append(cs, [conn EXCEPT !.listeners = { <<"message", "data">> }]),
        unique |-> uniq,
        calls |-> Append(created, Call("addEventListener", h, <<"message", "data">>)),
        threw |-> FALSE]

\* url.indexOf('?') found the token
HasQuery(s) == \E i \in DOMAIN s : s[i] = "?"

\* ServerSentEvents.prototype.legacy
LegacyRun(self, cs, uniq, owner, target) ==
  LET h == Len(cs) + 1
      marker == "_SSE_LEGACY=" \o ToString(uniq)
      src == Url(<< (IF HasQuery(target.s) THEN "&" ELSE "?"), marker >>)
      conn == [owner |-> owner, kind |-> "legacy", url |-> src, asked |-> target,
               elementId |-> marker, attempts |-> 1, lost |-> FALSE,
               live |-> TRUE, mounted |-> TRUE, listeners |-> {}]
      created == << Call("new", h, <<>>) >>
      mounted == [self EXCEPT !.div = h, !.url = src, !.api = h]
  IN
  IF target.null
  THEN [self |-> self, conns |-> cs, unique |-> uniq + 1, calls |-> <<>>, threw |-> TRUE]
  ELSE IF ~self.listen
  THEN [self |-> mounted, conns |-> Append(cs, conn), unique |-> uniq + 1,
        calls |-> created, threw |-> TRUE]
  ELSE [self |-> mounted,
        conns |-> Append(cs, [conn EXCEPT !.listeners = { <<"sse", "data">> }]),
        unique |-> uniq + 1,
        calls |-> Append(created, Call("addEventListener", h, <<"sse", "data">>)),
        threw |-> FALSE]

\* An event of a connection handle.
Event(type, data, lastId) == [type |-> type, data |-> data, lastEventId |-> lastId]

EventTypes == {"message", "sse", "error"}

Events == { Event(t, d, "7") : t \in EventTypes, d \in {"x", "y"} }

NoEvent == [h |-> 0, event |-> Event("", "", "")]

\* A data parser handing on the event's lastEventId
DataPayloadId(evt) == evt.lastEventId

\* function data(evt) { return evt.data; }
DataPayload(evt) == evt.data

\* The listener this.listen.data, called with an event: one emit('data', .)
\* reaching the subscribers of that moment in their order.
ListenData(log, subscribers, evt) ==
  Append(log, [payload |-> DataPayload(evt), to |-> subscribers])

\* open() without its `if (this.api) this.end()`
EndsFirstNever(self) == FALSE

\* if (this.api) this.end();
EndsFirst(self) == self.api # 0

\* ServerSentEvents.prototype.open
OpenRun(self, cs, uniq, owner, urlArg) ==
  LET ended == IF EndsFirst(self) THEN EndRun(self, cs) ELSE Quiet(cs)
      target == IF Falsy(urlArg) THEN self.url ELSE urlArg
      made == IF LegacyFlag
              THEN LegacyRun(self, ended.conns, uniq, owner, target)
              ELSE InitializeRun(self, ended.conns, uniq, owner, target)
      h == made.self.api
  IN
  IF ended.threw
  THEN [self |-> self, conns |-> ended.conns, unique |-> uniq,
        calls |-> ended.calls, threw |-> TRUE]
  ELSE IF made.threw
  THEN [made EXCEPT !.calls = ended.calls \o @]
  ELSE [made EXCEPT
          !.conns = [@ EXCEPT ![h].listeners = @ \cup Range(OpenAdds)],
          !.calls = ended.calls \o @ \o Calls("addEventListener", h, OpenAdds)]

-----------------------------------------------------------------------------
(* State machine of the transport *)

InitClient ==
  /\ platform = "unloaded"
  /\ instance = 0
  /\ api = 0
  /\ url = NullUrl
  /\ div = 0
  /\ listen = FALSE
  /\ noreconnect = FALSE
  /\ unique = 1
  /\ conns = <<>>
  /\ lastOp = "none"
  /\ lastCalls = <<>>
  /\ lastThrew = FALSE
  /\ options = [manual |-> FALSE, fn |-> FALSE]
  /\ opened = FALSE
  /\ subs = <<>>
  /\ emitted = <<>>
  /\ fired = 0
  /\ lastEvent = NoEvent

\* The module is loaded: its capability flags are decided once.
Load ==
  /\ platform = "unloaded"
  /\ platform' \in Platforms
  /\ UNCHANGED <<instance, api, url, div, listen, noreconnect, unique, conns,
                 lastOp, lastCalls, lastThrew, eventVars, sseVars>>

\* new ServerSentEvents(url, options, fn)
NewTransport(urlArg, optReconnect, optManual, fn) ==
  LET r == OpenRun(Fresh, conns, unique, instance + 1, urlArg)
  IN
  /\ platform # "unloaded"
  /\ instance < MaxInstances
  /\ Len(conns) < MaxConns
  /\ unique <= MaxConns
  /\ instance' = instance + 1
  /\ noreconnect' = (optReconnect = FALSE)
  /\ lastOp' = "new"
  /\ IF optManual
     THEN /\ api' = 0
          /\ url' = urlArg
          /\ div' = 0
          /\ listen' = TRUE
          /\ lastCalls' = <<>>
          /\ lastThrew' = FALSE
          /\ UNCHANGED <<unique, conns>>
     ELSE /\ api' = r.self.api
          /\ url' = r.self.url
          /\ div' = r.self.div
          /\ listen' = r.self.listen
          /\ unique' = r.unique
          /\ conns' = r.conns
          /\ lastCalls' = r.calls
          /\ lastThrew' = r.threw
  /\ options' = [manual |-> optManual, fn |-> fn]
  /\ opened' = ~optManual
  /\ subs' = IF fn THEN << "fn" >> ELSE <<>>
  /\ emitted' = <<>>
  /\ lastEvent' = NoEvent
  /\ UNCHANGED <<platform, fired, sseVars>>

NewFrom(urls, reconnects, manuals, fns) ==
  \E urlArg \in urls, optReconnect \in reconnects, optManual \in manuals, fn \in fns :
    NewTransport(urlArg, optReconnect, optManual, fn)

NewAny == NewFrom(Urls, BOOLEAN, BOOLEAN, {FALSE})

\* transport.open(url); url may be left out
Open(urlArg) ==
  LET r == OpenRun(Self, conns, unique, instance, urlArg)
  IN
  /\ instance > 0
  /\ Len(conns) < MaxConns
  /\ unique <= MaxConns
  /\ api' = r.self.api
  /\ url' = r.self.url
  /\ div' = r.self.div
  /\ listen' = r.self.listen
  /\ unique' = r.unique
  /\ conns' = r.conns
  /\ lastOp' = "open"
  /\ lastCalls' = r.calls
  /\ lastThrew' = r.threw
  /\ opened' = TRUE
  /\ UNCHANGED <<platform, instance, noreconnect, options, subs, emitted, fired,
                 lastEvent, sseVars>>

OpenFrom(urls) == \E urlArg \in urls : Open(urlArg)

OpenAny == OpenFrom(Urls \cup {NullUrl})

\* transport.end()
End ==
  LET r == EndRun(Self, conns)
  IN
  /\ instance > 0
  /\ conns' = r.conns
  /\ lastOp' = "end"
  /\ lastCalls' = r.calls
  /\ lastThrew' = r.threw
  /\ UNCHANGED <<platform, instance, api, url, div, listen, noreconnect, unique,
                 eventVars, sseVars>>

\* transport.destroy()
Destroy ==
  LET r == EndRun(Self, conns)
  IN
  /\ instance > 0
  /\ conns' = r.conns
  /\ lastOp' = "destroy"
  /\ lastCalls' = r.calls
  /\ lastThrew' = r.threw
  /\ IF r.threw
     THEN UNCHANGED <<api, listen, url>>
     ELSE /\ api' = 0
          /\ listen' = FALSE
          /\ url' = NullUrl
  /\ UNCHANGED <<platform, instance, div, noreconnect, unique, eventVars, sseVars>>

\* transport.on('data', g): a further subscriber
Subscribe ==
  /\ instance > 0
  /\ "g" \notin Range(subs)
  /\ subs' = Append(subs, "g")
  /\ lastOp' = "on"
  /\ lastCalls' = <<>>
  /\ lastThrew' = FALSE
  /\ UNCHANGED <<platform, instance, api, url, div, listen, noreconnect, unique,
                 conns, options, opened, emitted, fired, lastEvent, sseVars>>

\* A live handle of the transport delivers an event to its listeners: the
\* data listener emits 'data'; an error marks the connection as lost.
Fire(h, evt) ==
  /\ instance > 0
  /\ fired < MaxEvents
  /\ conns[h].owner = instance
  /\ conns[h].live
  /\ fired' = fired + 1
  /\ lastEvent' = [h |-> h, event |-> evt]
  /\ emitted' = IF << evt.type, "data" >> \in conns[h].listeners
                THEN ListenData(emitted, subs, evt)
                ELSE emitted
  /\ conns' = IF evt.type = "error" THEN [conns EXCEPT ![h].lost = TRUE] ELSE conns
  /\ UNCHANGED <<platform, instance, api, url, div, listen, noreconnect, unique,
                 lastOp, lastCalls, lastThrew, options, opened, subs, sseVars>>

FireAny == \E h \in DOMAIN conns, evt \in Events : Fire(h, evt)

\* The platform's connection object, not closed, connects again by itself
\* after it lost its connection.
Reconnect ==
  \E h \in DOMAIN conns :
    /\ conns[h].live
    /\ conns[h].lost
    /\ conns' = [conns EXCEPT ![h].lost = FALSE, ![h].attempts = @ + 1]
    /\ UNCHANGED <<platform, instance, api, url, div, listen, noreconnect, unique,
                   lastOp, lastCalls, lastThrew, eventVars, sseVars>>

\* The URLs of the runs with events.
EventUrls == { Url(<<"/sse">>) }

\* Events: transports are built with manual: true and reconnect: false,
\* opened, subscribed to and ended while their handles deliver events.
NextEvents ==
  \/ Load
  \/ NewFrom(EventUrls, {FALSE}, {TRUE}, BOOLEAN)
  \/ OpenFrom(EventUrls \cup {NullUrl})
  \/ End
  \/ Subscribe
  \/ FireAny
  \/ Reconnect

NextClient == Load \/ NewAny \/ OpenAny \/ End \/ Destroy

\* Streaming: an encoder is built and written to.
NextSSE ==
  \/ New(StreamRequests, StreamResponseHeaders, StreamZipResults)
  \/ Accept
  \/ WriteAny
  \/ RetryAny
  \/ Detach

\* Handshake: an encoder is built for any request and accepts it.
NextAccept ==
  \/ New(Requests, ResponseHeaders, ZipResults)
  \/ Accept
  \/ Detach

\* Persistence: an encoder is built, given a Sequence Store and written to.
NextStore ==
  \/ New(StoreRequests, StreamResponseHeaders, {"none"})
  \/ AttachStorage
  \/ WriteFrom(StoreMessages)
  \/ RetryAny

Init == InitSSE /\ InitClient

SpecSSE == Init /\ [][NextSSE]_vars

SpecAccept == Init /\ [][NextAccept]_vars

SpecClient == Init /\ [][NextClient]_vars

SpecStore == Init /\ [][NextStore]_vars

SpecEvents == Init /\ [][NextEvents]_vars

-----------------------------------------------------------------------------
(* Properties of the encoder *)

IsCall == last.op \in {"write", "retry"}

Standard == pc = "ready" /\ ~legacy

\* C1: with numbering enabled and standard dialect, whatever retry calls are
\* interleaved, the n-th write() puts the id n-1 in its frame group: the ids
\* are 0, 1, 2, ... without gap or repeat.
C1_IdsCountFromZero ==
  (Standard /\ numbering) =>
    /\ Len(ids) = writes
    /\ \A n \in 1..Len(ids) : ids[n] = n - 1
    /\ last.op = "write" => last.seq = writes - 1

C1_Witness ==
  /\ Standard /\ numbering
  /\ Len(ids) >= 2
  /\ last.op = "retry"

\* The frame group the specification describes for write(m) in standard
\* dialect with numbering: id line, one data line per value, blank line.
RECURSIVE C2_DataLines(_)
C2_DataLines(items) ==
  IF items = <<>> THEN ""
  ELSE "data:" \o Head(items) \o "\n" \o C2_DataLines(Tail(items))

C2_Items(msg) == IF msg.array THEN msg.items ELSE <<msg.value>>

C2_Expected(seq, msg) ==
  "id:" \o ToString(seq) \o "\n" \o C2_DataLines(C2_Items(msg)) \o "\n"

\* C2: in standard dialect with numbering, write(m) hands the sink, in exactly
\* one call, 'id:<seq>\n', then 'data:<mi>\n' for each value in order, then
\* '\n'; write(['a','b']) at sequence 0 gives 'id:0\ndata:a\ndata:b\n\n' and
\* write('c') at sequence 1 gives 'id:1\ndata:c\n\n'.
C2_NumberedFrameGroup ==
  (Standard /\ numbering /\ last.op = "write" /\ last.sink # "null") =>
    /\ Len(last.sunk) = 1
    /\ last.sunk[1].to = last.sink
    /\ last.sunk[1].packet = C2_Expected(last.seq, last.msg)
    /\ (last.msg = Array(<<"a", "b">>) /\ last.seq = 0)
         => last.sunk[1].packet = "id:0\ndata:a\ndata:b\n\n"
    /\ (last.msg = Scalar("c") /\ last.seq = 1)
         => last.sunk[1].packet = "id:1\ndata:c\n\n"

C2_Witness ==
  /\ Standard /\ numbering
  /\ last.op = "write" /\ last.msg = Scalar("c") /\ last.seq = 1
  /\ Len(last.sunk) = 1
  /\ ids = <<0, 1>>

\* C3: in legacy dialect every write(), whatever the payload and the numbering
\* flag, hands the sink exactly 'Event: sse\n\n'; no id is ever attached.
C3_LegacyFixedFrame ==
  (pc = "ready" /\ legacy) =>
    /\ ids = <<>>
    /\ (last.op = "write" /\ last.sink # "null") =>
         last.sunk = << [to |-> last.sink, packet |-> "Event: sse\n\n",
                         answer |-> last.ret] >>

C3_Witness ==
  /\ pc = "ready" /\ legacy /\ numbering
  /\ last.op = "write" /\ last.msg = Array(<<"a", "b">>)
  /\ Len(last.sunk) = 1
  /\ writes >= 2

\* The dialect the specification derives from the request.
C4_RequestIsLegacy(request) ==
  \/ "_SSE_LEGACY" \in request.query
  \/ /\ request.userAgent.present
     /\ OperaNine(request.userAgent.value)

\* C4: for every request, without compression in play, the encoder is
\* constructed and its dialect is legacy exactly when the request's query has
\* the key _SSE_LEGACY or the request's User-Agent is that of Opera 9.
C4_DialectFromRequest ==
  (pc # "idle" /\ encoding = "null") =>
    /\ pc = "ready"
    /\ legacy <=> C4_RequestIsLegacy(req)

\* C5: once accept has run the response's Content-Type is the DOM event
\* stream type exactly for a legacy encoder and text/event-stream otherwise;
\* construction runs accept exactly when manual is not set, and with manual
\* set nothing is written to the response before accept is called.
C5_ContentTypeAndManual ==
  /\ accepted # "no" =>
       httpHeaders["Content-Type"] =
         (IF legacy THEN "text/x-dom-event-stream" ELSE "text/event-stream")
  /\ (pc = "ready" /\ ~manual) => accepted # "no"
  /\ (pc = "ready" /\ manual /\ accepted = "no") =>
       (httpStatus = 0 /\ httpHeaders = NoHeaders)

\* C6: after accept the resume state is the integer the Last-Event-ID header
\* holds when one is supplied, and null (not zero) when the header is absent.
C6_ResumeState ==
  accepted = "done" =>
    /\ (req.lastEventId.present /\ req.lastEventId.value = <<"4", "2">>)
         => lastEventId = Num(42)
    /\ (req.lastEventId.present /\ req.lastEventId.value = <<"0">>)
         => lastEventId = Num(0)
    /\ ~req.lastEventId.present => lastEventId = Null

\* C7: write and retry return false, having called nothing on the sink, when
\* no sink is attached; with a sink they make one call on it and return its
\* answer: false when it rejects, true only when it accepts.
C7_WriteReports ==
  IsCall =>
    /\ last.sink = "null" => (last.ret = FALSE /\ last.sunk = <<>>)
    /\ last.sink # "null" => (Len(last.sunk) = 1 /\ last.ret = last.sunk[1].answer)
    /\ last.ret = TRUE => (last.sunk # <<>> /\ last.sunk[1].answer = TRUE)

C7_Witness ==
  /\ last.op = "write"
  /\ last.sink = "null"
  /\ last.ret = FALSE
  /\ writes >= 2

\* The codec names the specification lists for Content-Encoding.
C8_CodecName(enc) ==
  CASE enc = "gzip" -> "gzip"
    [] enc = "deflate" -> "deflate"
    [] enc = "raw" -> "deflate-raw"
    [] OTHER -> ""

\* C8: when an encoding is negotiated, accept sets Content-Encoding to the
\* codec and Vary to Content-Encoding on the HTTP response; when none is, the
\* encoder writes to the raw response and sets neither header.
C8_CompressionHeaders ==
  accepted # "no" =>
    IF encoding # "null"
    THEN /\ httpHeaders["Content-Encoding"] = C8_CodecName(encoding)
         /\ httpHeaders["Vary"] = "Content-Encoding"
    ELSE /\ httpHeaders["Content-Encoding"] = ""
         /\ httpHeaders["Vary"] = ""

\* The frame group of a write() that attaches no id, and that of retry().
C16_NoIdFrame(isLegacy, msg) ==
  IF isLegacy THEN "Event: sse\n\n" ELSE C2_DataLines(C2_Items(msg)) \o "\n"

C16_RetryFrame(isLegacy, interval) ==
  "retry:" \o (IF isLegacy THEN " " ELSE "") \o ToString(interval) \o "\n\n"

C16_Packet(call, expected) ==
  call.sunk # <<>> => call.sunk[1].packet = expected

\* C16: the sequence counter never decreases; write() attaches an id line
\* (and then advances the counter) exactly when numbering is enabled and the
\* dialect is standard; a legacy or unnumbered write() and every retry() emit
\* no id line and leave the counter as it was.
C16_IdOnlyWhenNumbered ==
  [][ /\ id' >= id
      /\ (writes' = writes /\ last'.op = "retry") =>
            /\ id' = id /\ ids' = ids
            /\ C16_Packet(last', C16_RetryFrame(legacy, last'.interval))
      /\ (writes' = writes + 1) =>
            IF numbering /\ ~legacy
            THEN /\ ids' = Append(ids, id) /\ id' = id + 1
                 /\ C16_Packet(last', C2_Expected(id, last'.msg))
            ELSE /\ ids' = ids /\ id' = id
                 /\ C16_Packet(last', C16_NoIdFrame(legacy, last'.msg))
    ]_vars

C16_Witness ==
  /\ Standard /\ ~numbering
  /\ last.op = "write" /\ last.msg = Array(<<"a", "b">>)
  /\ last.sunk # <<>>
  /\ writes >= 2 /\ id = 0

\* C17: with a store attached, numbering enabled and standard dialect, each
\* write() calls storage.set once, before the counter moves, with the number
\* of its id line and its payload (its data lines); a store attached from the
\* first numbered write on so holds the keys 0..k-1.  Without a store, in
\* legacy dialect or without numbering, nothing is persisted.
C17_StoredOncePerWrite ==
  [][ /\ (writes' = writes + 1) =>
            IF storage /\ numbering /\ ~legacy
            THEN /\ store' = Append(store, [key |-> id,
                                  payload |-> C2_DataLines(C2_Items(last'.msg))])
                 /\ last'.seq = id /\ id' = id + 1
                 /\ C16_Packet(last', C2_Expected(id, last'.msg))
            ELSE store' = store
      /\ (writes' = writes) => store' = store
      /\ (Len(store') = Len(ids')) => \A n \in 1..Len(store') : store'[n].key = n - 1
      /\ (~storage' \/ legacy' \/ ~numbering') => store' = <<>>
    ]_vars

C17_Witness ==
  /\ Standard /\ numbering /\ storage
  /\ Len(store) = 2 /\ store[2].key = 1
  /\ store[1].payload = "data:a\ndata:b\n"
  /\ last.op = "write" /\ last.msg = Scalar("c")

\* C20: in standard dialect with numbering the counter advances by one on
\* every write() whatever the flush returns, also when the sink is missing or
\* rejects the frame: the counter equals the number of write() calls.
C20_CounterCountsCalls ==
  (Standard /\ numbering) =>
    /\ id = writes
    /\ (last.op = "write" /\ ~last.ret) => id = last.seq + 1

C20_Witness ==
  /\ Standard /\ numbering
  /\ last.op = "write" /\ last.ret = FALSE
  /\ last.sunk # <<>> /\ last.sunk[1].answer = FALSE
  /\ id = writes /\ writes >= 2

-----------------------------------------------------------------------------
(* Properties of the transport *)

LiveOf(i) == { h \in DOMAIN conns : conns[h].owner = i /\ conns[h].live }

Closing == {"close", "removeEventSource"}

\* C9: whatever open, end and destroy calls are made, a transport has at most
\* one live connection; an open() made while one is live closes it strictly
\* before it creates the next: no closing call follows a creation.
C9_AtMostOneLive ==
  /\ \A i \in 1..instance : Cardinality(LiveOf(i)) <= 1
  /\ \A k \in DOMAIN lastCalls :
       lastCalls[k].call = "new" =>
         /\ \A j \in DOMAIN lastCalls : lastCalls[j].call \in Closing => j < k
         /\ LiveOf(conns[lastCalls[k].h].owner) = { lastCalls[k].h }

C9_Witness ==
  /\ lastOp = "open"
  /\ \E j, k \in DOMAIN lastCalls :
       /\ j < k
       /\ lastCalls[j].call = "close"
       /\ lastCalls[k].call = "new"
       /\ lastCalls[j].h # lastCalls[k].h
  /\ Cardinality(LiveOf(instance)) = 1

\* C10: after end() has returned for a transport with a connection, none of
\* the four listeners is left on the ended handle under any event name.
C10_EndDetachesAll ==
  (lastOp = "end" /\ ~lastThrew /\ api # 0) => conns[api].listeners = {}

\* C11: in the standard strategy the live connection was created against the
\* URL the most recent open asked for (the constructor's URL, the argument of
\* open(url), or the stored URL for open()), never an earlier URL or none.
C11_ConnectsToRequestedUrl ==
  \A h \in DOMAIN conns :
    (conns[h].kind = "es" /\ conns[h].live) =>
      /\ ~conns[h].url.null
      /\ conns[h].url = conns[h].asked

\* C12: in the legacy strategy the mounted element's URL is the URL given to
\* open followed by '?' (or '&' when that URL has a '?') and the marker
\* _SSE_LEGACY=<n>; the given URL is kept as its prefix, and n differs for
\* every legacy connection made, across instances and reopenings.
C12_MarkerAppendedToUrl ==
  /\ \A h \in DOMAIN conns :
        conns[h].kind = "legacy" =>
          LET sep == IF HasQuery(conns[h].asked.s) THEN "&" ELSE "?"
          IN conns[h].url = Url(conns[h].asked.s \o << sep, conns[h].elementId >>)
  /\ \A h, k \in DOMAIN conns :
        (conns[h].kind = "legacy" /\ conns[k].kind = "legacy" /\ h # k) =>
          conns[h].elementId # conns[k].elementId

\* C14: destroy() ends any active connection and then releases the handle,
\* the listener set and the URL; an end() after it is a no-op: no error, no
\* call on any handle, no change of state.
C14_DestroyReleases ==
  lastOp = "destroy" =>
    /\ ~lastThrew
    /\ api = 0 /\ ~listen /\ url = NullUrl
    /\ \A h \in DOMAIN conns : conns[h].owner = instance => ~conns[h].live
    /\ EndRun(Self, conns) = Quiet(conns)

\* C18: end() is idempotent: an end() right after an end() makes no close or
\* removal call on the handle already ended and changes no state.
C18_SecondEndIsNoOp ==
  lastOp = "end" =>
    /\ EndRun(Self, conns).calls = <<>>
    /\ EndRun(Self, conns).conns = conns
    /\ ~EndRun(Self, conns).threw

\* C19: in the legacy strategy the container element goes with the connection:
\* a container stays attached only while its connection is the live one of its
\* transport, so after end(), destroy() or a reopening open() the former
\* container is detached and a transport has at most one mounted container.
C19_ContainerGoesWithConnection ==
  /\ \A h \in DOMAIN conns : conns[h].mounted => conns[h].live
  /\ \A i \in 1..instance :
        Cardinality({ h \in DOMAIN conns : conns[h].owner = i /\ conns[h].mounted }) <= 1

\* The event type that carries messages on a handle of the given kind.
C13_MessageType(kind) == IF kind = "es" THEN "message" ELSE "sse"

\* C13: a transport built with manual: true has no connection until open is
\* called; once opened (and not destroyed), every message event of the active
\* handle (message for standard, sse for legacy) gives exactly one 'data'
\* emission, with the event's data unchanged, to the constructor's callback
\* and every other subscriber, emissions following the order of the events.
C13_EveryMessageEmitsData ==
  [][ /\ (instance' > 0 /\ ~opened') =>
            \A h \in DOMAIN conns' : conns'[h].owner # instance'
      /\ (fired' = fired + 1 /\ listen
             /\ lastEvent'.h = api
             /\ lastEvent'.event.type = C13_MessageType(conns[api].kind)) =>
            /\ emitted' = Append(emitted, [payload |-> lastEvent'.event.data,
                                           to |-> subs])
            /\ options.fn => (subs # <<>> /\ subs[1] = "fn")
    ]_vars

C13_Witness ==
  /\ options.manual /\ options.fn /\ opened /\ listen
  /\ subs = << "fn", "g" >>
  /\ api # 0 /\ lastEvent.h = api
  /\ emitted = << [payload |-> "x", to |-> << "fn" >>],
                  [payload |-> "y", to |-> << "fn", "g" >>] >>

\* C15: a transport built with reconnect: false prevents the built-in
\* reconnect: after its connection reported an error no new connection
\* attempt is made for it unless the caller calls open.
C15_NoBuiltInReconnect ==
  noreconnect =>
    \A h \in DOMAIN conns : conns[h].owner = instance => conns[h].attempts = 1

====
